---- MODULE Spec2Model ----
(***************************************************************************)
(* Model of netlify/functions/server.js: the date-range expander, the      *)
(* per-day snapshot reads and the four aggregation endpoints               *)
(* (/api/summary, /api/coverage-usage, /api/coverage-trends, /api/apis).   *)
(*                                                                         *)
(* Representation                                                          *)
(*   - a date string "YYYY-MM-DD" is the triple <<y, m, d>>; the empty     *)
(*     string (a missing query parameter) is <<>>;                         *)
(*   - a Date object is [valid, t] with t the time value in hours since    *)
(*     1970-01-01T00:00Z (every offset involved is a whole hour);          *)
(*   - a number that need not be an integer is the reduced fraction        *)
(*     <<n, d>>, d > 0, and NaN is <<0, 0>>; where the code prints a       *)
(*     number (toFixed) it is the IEEE 754 double, kept bit by bit;        *)
(*   - a snapshot file is [state, content], state one of "absent",         *)
(*     "malformed" (JSON.parse throws) or "ok";                            *)
(*   - probed counts the fs.existsSync calls the last request made.        *)
(***************************************************************************)
EXTENDS Integers, Sequences, FiniteSets, TLC

VARIABLES tz, store, req, resp, probed

vars == <<tz, store, req, resp, probed>>

-----------------------------------------------------------------------------
(* Bounds *)

\* most records (coverage entries plus usage records) in the data directory
MaxRecords == 2
\* largest full_size of a coverage record
MaxFullSize == 1
\* largest usage_count of a usage record
MaxCount == 1
\* longest usage list of one usage file
MaxUsageLen == 1
\* number of calendar days the date-range expander is exercised over
RangeSpan == 15

-----------------------------------------------------------------------------
(* Calendar arithmetic of the Date object (proleptic Gregorian, UTC) *)

\* day number (days since 1970-01-01) of year y, month m, day-of-month d;
\* d may exceed the length of the month, as in setDate(getDate() + 1)
DaysFromCivil(y, m, d) ==
    LET yy  == IF m <= 2 THEN y - 1 ELSE y
        era == yy \div 400
        yoe == yy - era * 400
        mp  == IF m > 2 THEN m - 3 ELSE m + 9
        doy == (153 * mp + 2) \div 5 + d - 1
        doe == yoe * 365 + yoe \div 4 - yoe \div 100 + doy
    IN  era * 146097 + doe - 719468

\* <<y, m, d>> of a day number
CivilFromDays(z) ==
    LET zz  == z + 719468
        era == zz \div 146097
        doe == zz - era * 146097
        yoe == (doe - doe \div 1460 + doe \div 36524 - doe \div 146096) \div 365
        doy == doe - (365 * yoe + yoe \div 4 - yoe \div 100)
        mp  == (5 * doy + 2) \div 153
        d   == doy - (153 * mp + 2) \div 5 + 1
        m   == IF mp < 10 THEN mp + 3 ELSE mp - 9
        y   == yoe + era * 400
    IN  <<IF m <= 2 THEN y + 1 ELSE y, m, d>>

\* the time zones the process may run in (environment variable TZ)
TimeZones == {"UTC", "America/New_York"}

\* America/New_York, 2024: daylight time from 2024-03-10T07:00Z (02:00 EST)
\* to 2024-11-03T06:00Z (02:00 EDT)
NYDstStartUTC == DaysFromCivil(2024, 3, 10) * 24 + 7
NYDstEndUTC == DaysFromCivil(2024, 11, 3) * 24 + 6

\* LocalTZA(t, isUTC) of ECMA-262, in hours.  A local time that is skipped
\* or repeated is interpreted with the offset before the transition.
LocalTZA(zone, t, isUTC) ==
    IF zone = "UTC" THEN 0
    ELSE IF isUTC
         THEN IF NYDstStartUTC <= t /\ t < NYDstEndUTC THEN -4 ELSE -5
         ELSE IF NYDstStartUTC - 4 <= t /\ t < NYDstEndUTC - 4 THEN -4 ELSE -5

\* new Date(s) for a date-only string: UTC midnight of the day, or an
\* invalid Date when the string is not a date
NewDate(s) ==
    IF Len(s) = 3 /\ s[2] \in 1..12 /\ s[3] \in 1..31
    THEN [valid |-> TRUE, t |-> DaysFromCivil(s[1], s[2], s[3]) * 24]
    ELSE [valid |-> FALSE, t |-> 0]

\* date.toISOString().split("T")[0]
ToISODate(t) == CivilFromDays(t \div 24)

\* date.setDate(date.getDate() + 1): one day later on the LOCAL calendar,
\* same local time of day, converted back to a time value
SetDatePlusOne(zone, t) ==
    LET lt   == t + LocalTZA(zone, t, TRUE)
        ymd  == CivilFromDays(lt \div 24)
        nl   == DaysFromCivil(ymd[1], ymd[2], ymd[3] + 1) * 24 + (lt % 24)
    IN  nl - LocalTZA(zone, nl, FALSE)

RECURSIVE DateLoop(_, _, _, _)
\* the while loop of generateDateRange
DateLoop(zone, startT, endT, dates) ==
    IF startT <= endT
    THEN DateLoop(zone, SetDatePlusOne(zone, startT), endT,
                  Append(dates, ToISODate(startT)))
    ELSE dates

\* generateDateRange RETURNS an Error object for an invalid endpoint
\* (isError), otherwise the array of day keys
generateDateRange(zone, start, end) ==
    LET startDate == NewDate(start)
        endDate   == NewDate(end)
    IN  IF ~startDate.valid \/ ~endDate.valid
        THEN [isError |-> TRUE, dates |-> <<>>]
        ELSE [isError |-> FALSE,
              dates |-> DateLoop(zone, startDate.t, endDate.t, <<>>)]

-----------------------------------------------------------------------------
(* Numbers: reduced fractions <<n, d>>, and NaN *)

RECURSIVE GCD(_, _)
GCD(a, b) == IF b = 0 THEN a ELSE GCD(b, a % b)

\* the Number NaN; every arithmetic operation on it gives NaN and every
\* comparison with it is false
NaN == <<0, 0>>

Frac(n, d) == LET g == GCD(n, d) IN IF g = 0 THEN <<0, 1>> ELSE <<n \div g, d \div g>>

FracAdd(a, b) ==
    IF a = NaN \/ b = NaN THEN NaN
    ELSE Frac(a[1] * b[2] + b[1] * a[2], a[2] * b[2])

FracDiv(a, k) == IF a = NaN THEN NaN ELSE Frac(a[1], a[2] * k)

FracLeq(a, b) == a # NaN /\ b # NaN /\ a[1] * b[2] <= b[1] * a[2]

Zero == Frac(0, 1)

\* (api.covered_lines / api.full_size) * 100 as a number to compute with,
\* full_size > 0.  The quotients of the records of CoverageRecords times 100
\* are doubles the code computes without rounding error, and so are their
\* sums and averages; the digits the code prints are taken from the double
\* itself (CoveragePercentDouble).
CoveragePercent(api) == Frac(api.covered_lines * 100, api.full_size)

-----------------------------------------------------------------------------
(* IEEE 754 binary64 arithmetic, round to nearest, ties to even.  A positive *)
(* double is [m, e]: m its 53 significand bits, most significant first, and *)
(* e the weight of the last bit (value = m * 2^e); zero is [m |-> <<>>].    *)

\* bits of the significand of a double
Precision == 53

DoubleZero == [m |-> <<>>, e |-> 0]

RECURSIVE ToBits(_)
\* the binary digits of a natural number, none for 0
ToBits(n) == IF n = 0 THEN <<>> ELSE Append(ToBits(n \div 2), n % 2)

RECURSIVE FromBitsFrom(_, _, _)
FromBitsFrom(bits, i, acc) ==
    IF i > Len(bits) THEN acc ELSE FromBitsFrom(bits, i + 1, 2 * acc + bits[i])

\* the natural number of a sequence of binary digits
FromBits(bits) == FromBitsFrom(bits, 1, 0)

\* bits + 1
IncBits(bits) ==
    LET zeros == {i \in 1..Len(bits) : bits[i] = 0}
    IN  IF zeros = {} THEN <<1>> \o [i \in 1..Len(bits) |-> 0]
        ELSE LET j == CHOOSE i \in zeros : \A z \in zeros : z <= i
             IN  [i \in 1..Len(bits) |-> IF i < j THEN bits[i] ELSE IF i = j THEN 1 ELSE 0]

RECURSIVE MulBitsFrom(_, _, _, _, _)
\* digit i of bits and the digits before it times k, plus carry, in front of out
MulBitsFrom(bits, k, i, carry, out) ==
    IF i = 0 THEN ToBits(carry) \o out
    ELSE MulBitsFrom(bits, k, i - 1, (bits[i] * k + carry) \div 2,
                     <<(bits[i] * k + carry) % 2>> \o out)

\* bits * k, k a small natural number
MulBits(bits, k) == MulBitsFrom(bits, k, Len(bits), 0, <<>>)

\* the double nearest to bits * 2^e (+ less than 2^e more when sticky);
\* bits starts with a 1
RoundToDouble(bits, e, sticky) ==
    LET L == Len(bits)
    IN  IF L <= Precision
        THEN [m |-> bits \o [i \in 1..(Precision - L) |-> 0], e |-> e - (Precision - L)]
        ELSE LET kept  == SubSeq(bits, 1, Precision)
                 guard == bits[Precision + 1]
                 rest  == sticky \/ \E i \in (Precision + 2)..L : bits[i] = 1
                 up    == guard = 1 /\ (rest \/ kept[Precision] = 1)
                 m1    == IF up THEN IncBits(kept) ELSE kept
             IN  IF Len(m1) > Precision
                 THEN [m |-> SubSeq(m1, 1, Precision), e |-> e + (L - Precision) + 1]
                 ELSE [m |-> m1, e |-> e + (L - Precision)]

RECURSIVE Normalize(_, _, _)
\* n / d * 2^e rewritten with d <= n < 2 * d
Normalize(n, d, e) ==
    IF n < d THEN Normalize(2 * n, d, e - 1)
    ELSE IF n >= 2 * d THEN Normalize(n, 2 * d, e + 1)
    ELSE [n |-> n, d |-> d, e |-> e]

RECURSIVE DivBits(_, _, _, _)
\* long division: k more quotient bits of r / d, r < d
DivBits(r, d, k, bits) ==
    IF k = 0 THEN [bits |-> bits, r |-> r]
    ELSE IF 2 * r >= d THEN DivBits(2 * r - d, d, k - 1, Append(bits, 1))
    ELSE DivBits(2 * r, d, k - 1, Append(bits, 0))

\* the double a / b of two integers, a >= 0, b > 0
DoubleDiv(a, b) ==
    IF a = 0 THEN DoubleZero
    ELSE LET nd == Normalize(a, b, 0)
             q  == DivBits(nd.n - nd.d, nd.d, Precision, <<1>>)
         IN  RoundToDouble(q.bits, nd.e - Precision, q.r # 0)

\* the double x * k, k a small natural number
DoubleTimes(x, k) ==
    IF x.m = <<>> THEN DoubleZero ELSE RoundToDouble(MulBits(x.m, k), x.e, FALSE)

\* (api.covered_lines / api.full_size) * 100 as the double the code holds
CoveragePercentDouble(api) == DoubleTimes(DoubleDiv(api.covered_lines, api.full_size), 100)

\* x.toFixed(1), as the number of tenths n: the integer n for which
\* n / 10 - x is closest to zero, the larger n of two; 0 <= x < 2^27
ToFixed1(x) ==
    IF x.m = <<>> THEN 0
    ELSE LET y == MulBits(x.m, 10)        \* 10 * x = y * 2^e, exactly
             s == Len(y) + x.e               \* number of integer bits of 10 * x
         IN  IF x.e >= 0 THEN FromBits(y \o [i \in 1..x.e |-> 0])
             ELSE IF s < 0 THEN 0
             ELSE FromBits(SubSeq(y, 1, s)) + y[s + 1]

-----------------------------------------------------------------------------
(* The data directory *)

\* API names: an ordinary one, and one that is also the name of a property
\* every object inherits from Object.prototype
Names == {"A", "toString"}

\* names of properties of Object.prototype
ObjectPrototypeKeys ==
    {"constructor", "hasOwnProperty", "isPrototypeOf", "propertyIsEnumerable",
     "toLocaleString", "toString", "valueOf", "__proto__",
     "__defineGetter__", "__defineSetter__", "__lookupGetter__", "__lookupSetter__"}

\* the day keys snapshot files exist for, in order: the day daylight time
\* starts in America/New_York and the day after
DayKeys == << <<2024, 3, 10>>, <<2024, 3, 11>> >>

StoreDays == {DayKeys[i] : i \in 1..Len(DayKeys)}

\* a string that is not a date, and the missing query parameter
BadDate == <<2024, 13, 1>>
NoParam == <<>>

CoverageRecords ==
    {r \in [full_size : 1..MaxFullSize, covered_lines : 0..MaxFullSize,
            apidoc : {"doc"}] : r.covered_lines <= r.full_size}

\* a parsed coverage file: the object's entries in key order
CoverageEntries == [name : Names, api : CoverageRecords]

CoverageMaps ==
    {<<>>} \cup {<<e>> : e \in CoverageEntries}
           \cup {p \in CoverageEntries \X CoverageEntries : p[1].name # p[2].name}

\* every client makes at least one call
UsageRecords ==
    {u \in [api_name : Names, usage_count : 1..MaxCount, total_clients : 1..MaxCount] :
        u.total_clients <= u.usage_count}

RECURSIVE SeqsUpTo(_, _)
SeqsUpTo(S, n) ==
    IF n = 0 THEN {<<>>}
    ELSE LET shorter == SeqsUpTo(S, n - 1)
         IN  shorter \cup {Append(q, x) : q \in shorter, x \in S}

UsageLists == SeqsUpTo(UsageRecords, MaxUsageLen)

Absent == [state |-> "absent", content |-> <<>>]
Malformed == [state |-> "malformed", content |-> <<>>]

CoverageFiles == {Absent, Malformed} \cup {[state |-> "ok", content |-> c] : c \in CoverageMaps}
UsageFiles == {Absent, Malformed} \cup {[state |-> "ok", content |-> u] : u \in UsageLists}

\* number of records in the files of one kind
RECURSIVE TotalRecords(_, _)
TotalRecords(files, days) ==
    IF days = {} THEN 0
    ELSE LET d == CHOOSE x \in days : TRUE
         IN  Len(files[d].content) + TotalRecords(files, days \ {d})

\* the coverage files of the directory holding exactly n records, by n
CoverageDirs ==
    [n \in 0..MaxRecords |->
        {c \in [StoreDays -> CoverageFiles] : TotalRecords(c, StoreDays) = n}]

\* the usage files of the directory holding at most n records, by n
UsageDirs ==
    [n \in 0..MaxRecords |->
        {u \in [StoreDays -> UsageFiles] : TotalRecords(u, StoreDays) <= n}]

\* the file api_coverage_<date>.json / api_usage_<date>.json of the directory
CoverageFile(st, date) == IF date \in StoreDays THEN st.cov[date] ELSE Absent
UsageFile(st, date) == IF date \in StoreDays THEN st.use[date] ELSE Absent

\* fs.existsSync(path)
existsSync(file) == file.state # "absent"

\* JSON.parse(fs.readFileSync(path)) throws on a malformed file
ParseThrows(file) == file.state = "malformed"

\* Object.keys(cov)
ObjectKeys(cov) == [i \in 1..Len(cov) |-> cov[i].name]

\* name is an own property of cov
HasKey(cov, name) == \E i \in 1..Len(cov) : cov[i].name = name

\* cov[name], for a name that is a key of cov
Lookup(cov, name) == cov[CHOOSE i \in 1..Len(cov) : cov[i].name = name].api

\* if (api), api = cov[name]: an own record is truthy, and so is the
\* function or object that cov inherits under a name of Object.prototype
Truthy(cov, name) == HasKey(cov, name) \/ name \in ObjectPrototypeKeys

\* (api.covered_lines / api.full_size) * 100 of a truthy api = cov[name]:
\* an inherited property has neither field, and undefined / undefined is NaN
CoverageOf(cov, name) ==
    IF HasKey(cov, name) THEN CoveragePercent(Lookup(cov, name)) ELSE NaN

\* use.find((u) => u.api_name === name): index of the first match, 0 if none
FindUsage(use, name) ==
    LET hits == {i \in 1..Len(use) : use[i].api_name = name}
    IN  IF hits = {} THEN 0 ELSE CHOOSE i \in hits : \A j \in hits : i <= j

-----------------------------------------------------------------------------
(* calculateSummary *)

RECURSIVE SumInt(_, _)
\* sum of f[x] over x in S
SumInt(f, S) ==
    IF S = {} THEN 0
    ELSE LET x == CHOOSE y \in S : TRUE IN f[x] + SumInt(f, S \ {x})

RECURSIVE SumFrac(_, _)
SumFrac(f, S) ==
    IF S = {} THEN Zero
    ELSE LET x == CHOOSE y \in S : TRUE IN FracAdd(f[x], SumFrac(f, S \ {x}))

\* parseInt(v, 10) || 0 of a JSON integer
ParseIntOrZero(v) == IF v = 0 THEN 0 ELSE v

\* Number(v) of a JSON integer
Number(v) == v

\* the set allApiNames
AllApiNames(allCoverage) ==
    UNION {{allCoverage[i][k].name : k \in 1..Len(allCoverage[i])} :
           i \in 1..Len(allCoverage)}

\* the loops of calculateSummary: the name set and the three accumulators
SummaryTotals(allCoverage, allUsage) ==
    LET allApiNames == AllApiNames(allCoverage)
        pairs == (1..Len(allCoverage)) \X allApiNames
        \* the pairs <<i, name>> with cov[name] truthy
        covered == {p \in pairs : Truthy(allCoverage[p[1]], p[2])}
        pct == [p \in covered |-> CoverageOf(allCoverage[p[1]], p[2])]
        \* use?.find(...): allUsage[i] is undefined past the end of allUsage
        hit == [p \in pairs |->
                  IF p[1] <= Len(allUsage) THEN FindUsage(allUsage[p[1]], p[2]) ELSE 0]
        used == {p \in pairs : hit[p] # 0}
        calls == [p \in used |-> ParseIntOrZero(allUsage[p[1]][hit[p]].usage_count)]
    IN  [allApiNames |-> allApiNames,
         totalCoverage |-> SumFrac(pct, covered),
         count |-> Cardinality(covered),
         totalCalls |-> SumInt(calls, used)]

\* calculateSummary without its guards: 0 / 0 is NaN
calculateSummaryUnguarded(allCoverage, allUsage) ==
    LET t == SummaryTotals(allCoverage, allUsage)
    IN  [totalAPIs |-> Cardinality(t.allApiNames),
         avgCoverage |-> IF t.count # 0 THEN FracDiv(t.totalCoverage, t.count)
                         ELSE NaN,
         totalCalls |-> t.totalCalls]

calculateSummary(allCoverage, allUsage) ==
    IF Len(allCoverage) = 0
    THEN [totalAPIs |-> 0, avgCoverage |-> Zero, totalCalls |-> 0]
    ELSE LET t == SummaryTotals(allCoverage, allUsage)
         IN  [totalAPIs |-> Cardinality(t.allApiNames),
              avgCoverage |-> IF t.count # 0 THEN FracDiv(t.totalCoverage, t.count)
                              ELSE Zero,
              totalCalls |-> t.totalCalls]

-----------------------------------------------------------------------------
(* Responses *)

Json(body) == [status |-> 200, body |-> body]
BadRequest(msg) == [status |-> 400, body |-> [error |-> msg]]
InternalError == [status |-> 500, body |-> [error |-> "Internal server error"]]

NoRequest == [op |-> "none", start |-> NoParam, end |-> NoParam, date |-> NoParam]
NoResponse == [status |-> 0, body |-> [error |-> ""]]

-----------------------------------------------------------------------------
(* GET /api/summary *)

\* one iteration of the per-day load loop:
\* acc = [allCoverage, allUsage, probes]
LoadDay(st, date, acc) ==
    LET covF == CoverageFile(st, date)
        useF == UsageFile(st, date)
    IN  IF existsSync(covF) /\ ParseThrows(covF)
        THEN \* caught: the usage file is neither probed nor read
             [acc EXCEPT !.probes = @ + 1]
        ELSE LET acc1 == IF existsSync(covF)
                         THEN [acc EXCEPT !.allCoverage = Append(@, covF.content),
                                          !.probes = @ + 2]
                         ELSE [acc EXCEPT !.probes = @ + 2]
             IN  IF existsSync(useF) /\ ~ParseThrows(useF)
                 THEN [acc1 EXCEPT !.allUsage = Append(@, useF.content)]
                 ELSE acc1                         \* absent, or caught

RECURSIVE LoadRange(_, _, _, _)
LoadRange(st, inRange, i, acc) ==
    IF i > Len(inRange) THEN acc
    ELSE LoadRange(st, inRange, i + 1, LoadDay(st, inRange[i], acc))

\* the handler: the response sent and the number of existsSync calls made
SummaryHandler(zone, st, start, end) ==
    IF start = NoParam \/ end = NoParam
    THEN [resp |-> BadRequest("Missing start or end date"), probed |-> 0]
    ELSE LET inRange == generateDateRange(zone, start, end)
         IN  IF inRange.isError
             THEN \* for...of over an Error object throws a TypeError
                  [resp |-> InternalError, probed |-> 0]
             ELSE LET loaded == LoadRange(st, inRange.dates, 1,
                                          [allCoverage |-> <<>>, allUsage |-> <<>>,
                                           probes |-> 0])
                  IN  [resp |-> Json(calculateSummary(loaded.allCoverage, loaded.allUsage)),
                       probed |-> loaded.probes]

-----------------------------------------------------------------------------
(* GET /api/coverage-usage *)

ScatterPoint(cov, use, name) ==
    LET api == Lookup(cov, name)
        usageItem == FindUsage(use, name)
    IN  [name |-> name,
         coverage |-> CoveragePercent(api),
         usage |-> IF usageItem # 0 THEN Number(use[usageItem].usage_count) ELSE 0]

CoverageUsageHandler(st, date) ==
    IF date = NoParam THEN [resp |-> BadRequest("Missing date"), probed |-> 0]
    ELSE LET covF == CoverageFile(st, date)
             useF == UsageFile(st, date)
         IN  IF ParseThrows(covF) THEN [resp |-> InternalError, probed |-> 1]
             ELSE IF ParseThrows(useF) THEN [resp |-> InternalError, probed |-> 2]
             ELSE LET cov == covF.content
                      use == useF.content
                      keys == ObjectKeys(cov)
                  IN  [resp |-> Json([data |-> [i \in 1..Len(keys) |->
                                                   ScatterPoint(cov, use, keys[i])]]),
                       probed |-> 2]

-----------------------------------------------------------------------------
(* GET /api/coverage-trends *)

TrendPoint(date, cov) ==
    LET idx == 1..Len(cov)
        pct == [i \in idx |-> CoveragePercent(cov[i].api)]
    IN  [date |-> date, avgCoverage |-> FracDiv(SumFrac(pct, idx), Len(cov))]

RECURSIVE TrendLoop(_, _, _, _)
\* the loop over inRange, from index i on; [threw, trends, probes]
TrendLoop(st, inRange, i, trends) ==
    IF i > Len(inRange) THEN [threw |-> FALSE, trends |-> trends, probes |-> i - 1]
    ELSE LET covF == CoverageFile(st, inRange[i])
         IN  IF ~existsSync(covF) THEN TrendLoop(st, inRange, i + 1, trends)
             ELSE IF ParseThrows(covF)
                  THEN [threw |-> TRUE, trends |-> trends, probes |-> i]
             ELSE IF Len(covF.content) = 0 THEN TrendLoop(st, inRange, i + 1, trends)
             ELSE TrendLoop(st, inRange, i + 1,
                            Append(trends, TrendPoint(inRange[i], covF.content)))

CoverageTrendsHandler(zone, st, start, end) ==
    IF start = NoParam \/ end = NoParam
    THEN [resp |-> BadRequest("Missing start or end date"), probed |-> 0]
    ELSE LET inRange == generateDateRange(zone, start, end)
         IN  IF inRange.isError
             THEN [resp |-> InternalError, probed |-> 0]
             ELSE LET r == TrendLoop(st, inRange.dates, 1, <<>>)
                  IN  [resp |-> IF r.threw THEN InternalError ELSE Json([data |-> r.trends]),
                       probed |-> r.probes]

-----------------------------------------------------------------------------
(* GET /api/apis *)

ApiRow(cov, use, name) ==
    LET api == Lookup(cov, name)
        usageItem == FindUsage(use, name)
    IN  [name |-> name,
         coverage |-> ToFixed1(CoveragePercentDouble(api)),
         usage |-> IF usageItem # 0 THEN Number(use[usageItem].usage_count) ELSE 0,
         totalClients |-> IF usageItem # 0 THEN Number(use[usageItem].total_clients) ELSE 0,
         apidoc |-> api.apidoc,
         fullSize |-> api.full_size,
         coveredLines |-> api.covered_lines]

ApiTableHandler(st, date) ==
    IF date = NoParam THEN [resp |-> BadRequest("Missing date"), probed |-> 0]
    ELSE LET covF == CoverageFile(st, date)
             useF == UsageFile(st, date)
         IN  IF ParseThrows(covF) THEN [resp |-> InternalError, probed |-> 1]
             ELSE IF ParseThrows(useF) THEN [resp |-> InternalError, probed |-> 2]
             ELSE LET cov == covF.content
                      use == useF.content
                      keys == ObjectKeys(cov)
                  IN  [resp |-> Json([data |-> [i \in 1..Len(keys) |->
                                                   ApiRow(cov, use, keys[i])]]),
                       probed |-> 2]

-----------------------------------------------------------------------------
(* The server *)

\* query parameter values a client sends
RequestDates == StoreDays \cup {BadDate, NoParam}

\* endpoints given to the date-range expander on its own
RangeFirstDay == DaysFromCivil(2024, 2, 27)
RangeDates == {CivilFromDays(RangeFirstDay + i) : i \in 0..(RangeSpan - 1)} \cup {BadDate}

\* a process in some time zone over a data directory of at most MaxRecords
\* records
Init ==
    /\ tz \in TimeZones
    /\ \E n \in 0..MaxRecords :
          \E c \in CoverageDirs[n], u \in UsageDirs[MaxRecords - n] :
              store = [cov |-> c, use |-> u]
    /\ req = NoRequest
    /\ resp = NoResponse
    /\ probed = 0

\* a request is handled from the idle state; handlers keep nothing between
\* requests
Idle == req.op = "none"

Summary(start, end) ==
    /\ Idle
    /\ req' = [op |-> "summary", start |-> start, end |-> end, date |-> NoParam]
    /\ LET handled == SummaryHandler(tz, store, start, end)
       IN  resp' = handled.resp /\ probed' = handled.probed
    /\ UNCHANGED <<tz, store>>

CoverageUsage(date) ==
    /\ Idle
    /\ req' = [op |-> "coverage-usage", start |-> NoParam, end |-> NoParam, date |-> date]
    /\ LET handled == CoverageUsageHandler(store, date)
       IN  resp' = handled.resp /\ probed' = handled.probed
    /\ UNCHANGED <<tz, store>>

CoverageTrends(start, end) ==
    /\ Idle
    /\ req' = [op |-> "coverage-trends", start |-> start, end |-> end, date |-> NoParam]
    /\ LET handled == CoverageTrendsHandler(tz, store, start, end)
       IN  resp' = handled.resp /\ probed' = handled.probed
    /\ UNCHANGED <<tz, store>>

ApiTable(date) ==
    /\ Idle
    /\ req' = [op |-> "apis", start |-> NoParam, end |-> NoParam, date |-> date]
    /\ LET handled == ApiTableHandler(store, date)
       IN  resp' = handled.resp /\ probed' = handled.probed
    /\ UNCHANGED <<tz, store>>

Next ==
    \/ \E start \in RequestDates, end \in RequestDates : Summary(start, end)
    \/ \E date \in RequestDates : CoverageUsage(date)
    \/ \E start \in RequestDates, end \in RequestDates : CoverageTrends(start, end)
    \/ \E date \in RequestDates : ApiTable(date)

Spec == Init /\ [][Next]_vars

\* the summary endpoint on its own
NextSummary == \E start \in RequestDates, end \in RequestDates : Summary(start, end)

SpecSummary == Init /\ [][NextSummary]_vars

\* the date-range expander called on its own, over an empty data directory
EmptyStore == [cov |-> [d \in StoreDays |-> Absent], use |-> [d \in StoreDays |-> Absent]]

InitRange ==
    /\ tz \in TimeZones
    /\ store = EmptyStore
    /\ req = NoRequest
    /\ resp = NoResponse
    /\ probed = 0

Expand(start, end) ==
    /\ Idle
    /\ req' = [op |-> "expand", start |-> start, end |-> end, date |-> NoParam]
    /\ resp' = [status |-> 0, body |-> generateDateRange(tz, start, end)]
    /\ probed' = 0
    /\ UNCHANGED <<tz, store>>

NextRange == \E start \in RangeDates, end \in RangeDates : Expand(start, end)

SpecRange == InitRange /\ [][NextRange]_vars

-----------------------------------------------------------------------------
(* What the specification expects of the last request, stated on the data   *)
(* directory itself: a DailySnapshot half that is absent or fails to parse  *)
(* is the empty container.                                                  *)

SnapCoverage(day) ==
    LET f == CoverageFile(store, day) IN IF f.state = "ok" THEN f.content ELSE <<>>

SnapUsage(day) ==
    LET f == UsageFile(store, day) IN IF f.state = "ok" THEN f.content ELSE <<>>

KeySet(cov) == {cov[k].name : k \in 1..Len(cov)}

RecordOf(cov, name) == cov[CHOOSE k \in 1..Len(cov) : cov[k].name = name].api

Pct(rec) == Frac(100 * rec.covered_lines, rec.full_size)

RECURSIVE FirstCount(_, _, _)
\* usage count of the first record named name at or after index i, else 0
FirstCount(use, name, i) ==
    IF i > Len(use) THEN 0
    ELSE IF use[i].api_name = name THEN use[i].usage_count
    ELSE FirstCount(use, name, i + 1)

\* both endpoints of the last request are present and parse as dates
ValidDates ==
    /\ req.start # NoParam /\ req.end # NoParam
    /\ NewDate(req.start).valid /\ NewDate(req.end).valid

\* the DateRange the expander hands to the aggregator for the last request
Range == generateDateRange(tz, req.start, req.end).dates

GlobalNames(range) == UNION {KeySet(SnapCoverage(range[i])) : i \in 1..Len(range)}

ExpTotalCalls(range) ==
    LET pairs == (1..Len(range)) \X GlobalNames(range)
        f == [p \in pairs |-> FirstCount(SnapUsage(range[p[1]]), p[2], 1)]
    IN  SumInt(f, pairs)

ExpAvgCoverage(range) ==
    LET pairs == {p \in (1..Len(range)) \X Names : p[2] \in KeySet(SnapCoverage(range[p[1]]))}
        f == [p \in pairs |-> Pct(RecordOf(SnapCoverage(range[p[1]]), p[2]))]
    IN  IF pairs = {} THEN <<0, 1>>
        ELSE FracDiv(SumFrac(f, pairs), Cardinality(pairs))

RECURSIVE ExpTrends(_, _)
\* one point per entry of the range, from index i on, whose coverage map is
\* non-empty
ExpTrends(range, i) ==
    IF i > Len(range) THEN <<>>
    ELSE LET cov == SnapCoverage(range[i])
             f == [k \in 1..Len(cov) |-> Pct(cov[k].api)]
         IN  IF Len(cov) = 0 THEN ExpTrends(range, i + 1)
             ELSE <<[date |-> range[i],
                     avgCoverage |-> FracDiv(SumFrac(f, 1..Len(cov)), Len(cov))]>>
                  \o ExpTrends(range, i + 1)

DayNumber(date) == DaysFromCivil(date[1], date[2], date[3])

ZeroSummary == [totalAPIs |-> 0, avgCoverage |-> <<0, 1>>, totalCalls |-> 0]

-----------------------------------------------------------------------------
(* Claims *)

\* every resource of the range is absent or well-formed
NoMalformedInRange ==
    \A i \in 1..Len(Range) :
        /\ CoverageFile(store, Range[i]).state # "malformed"
        /\ UsageFile(store, Range[i]).state # "malformed"

\* C1: Summary counts usage independently of coverage: totalCalls is the sum,
\* over every day of the range and every name of the global name set, of the
\* usage count of the first usage record with that name on that day, days
\* without a coverage resource included.  Stated here for the directories
\* the claim's example is about, whose resources are absent or well-formed
\* (a resource that fails to deserialize is C4).  (Violated: allUsage is
\* indexed by position in allCoverage, so a usage list is paired with the
\* wrong day, and lists past the number of loaded coverage maps are never
\* visited.)
C1_TotalCallsIndependentOfCoverage ==
    (req.op = "summary" /\ ValidDates /\ NoMalformedInRange) =>
        /\ resp.status = 200
        /\ resp.body.totalCalls = ExpTotalCalls(Range)

\* some day the last request queries has a coverage resource that fails to
\* deserialize
MalformedCoverageQueried ==
    \/ /\ req.op \in {"summary", "coverage-trends"}
       /\ ValidDates
       /\ \E i \in 1..Len(Range) : CoverageFile(store, Range[i]).state = "malformed"
    \/ /\ req.op \in {"coverage-usage", "apis"}
       /\ req.date # NoParam
       /\ CoverageFile(store, req.date).state = "malformed"

\* C2: a coverage resource that fails to deserialize never aborts a request:
\* each of the four operations still answers successfully, with that day's
\* coverage map taken as empty.  (Violated: coverage-usage, coverage-trends
\* and apis answer 500.)
C2_MalformedCoverageNeverAborts ==
    MalformedCoverageQueried =>
        /\ resp.status = 200
        /\ req.op = "summary" =>
              /\ resp.body.totalAPIs = Cardinality(GlobalNames(Range))
              /\ resp.body.avgCoverage = ExpAvgCoverage(Range)
        /\ req.op = "coverage-trends" => resp.body.data = ExpTrends(Range, 1)
        /\ req.op \in {"coverage-usage", "apis"} => Len(resp.body.data) = 0

\* C3: a range query whose start or end does not parse as a date is rejected
\* before any snapshot resource is probed, with a response that is neither a
\* success nor the generic internal-failure response.  (Violated: the
\* response is the generic 500.)
C3_InvalidDateRejected ==
    ( /\ req.op \in {"summary", "coverage-trends"}
      /\ req.start # NoParam /\ req.end # NoParam
      /\ ~(NewDate(req.start).valid /\ NewDate(req.end).valid) ) =>
        /\ probed = 0
        /\ resp.status # 200
        /\ ~(resp.status = 500 /\ resp.body.error = "Internal server error")

\* C4: in Summary a malformed coverage resource empties only the coverage
\* half of its day: when a day's coverage fails to deserialize while its
\* usage is well-formed, the day's usage counts still contribute, so
\* totalCalls is still the sum over every day of the range.  (Violated: the
\* exception skips the read of the day's usage file.)
C4_MalformedCoverageKeepsUsage ==
    ( /\ req.op = "summary" /\ ValidDates
      /\ \E i \in 1..Len(Range) :
            /\ CoverageFile(store, Range[i]).state = "malformed"
            /\ UsageFile(store, Range[i]).state = "ok" ) =>
        /\ resp.status = 200
        /\ resp.body.totalCalls = ExpTotalCalls(Range)

\* C5: CoverageTrends emits exactly one TrendPoint for each day of the range
\* whose coverage map is non-empty, in range order, and none for a day whose
\* coverage map is absent or empty.  (Violated through C2: a malformed
\* coverage resource in the range makes the request answer 500, so the
\* non-empty days get no point.)
C5_OneTrendPointPerCoveredDay ==
    (req.op = "coverage-trends" /\ ValidDates) =>
        /\ resp.status = 200
        /\ resp.body.data = ExpTrends(Range, 1)

\* C6: ApiTable returns exactly one row per distinct API name of the day's
\* coverage map, whatever the usage list holds; usage and totalClients are 0
\* when no usage record matches.  (Violated through C2: a resource of the
\* day that fails to deserialize makes the request answer 500.)
C6_OneRowPerCoverageName ==
    (req.op = "apis" /\ req.date # NoParam) =>
        /\ resp.status = 200
        /\ LET rows == resp.body.data
               cov == SnapCoverage(req.date)
               use == SnapUsage(req.date)
           IN  /\ Len(rows) = Cardinality(KeySet(cov))
               /\ {rows[i].name : i \in 1..Len(rows)} = KeySet(cov)
               /\ \A i \in 1..Len(rows) :
                     (\A k \in 1..Len(use) : use[k].api_name # rows[i].name) =>
                         rows[i].usage = 0 /\ rows[i].totalClients = 0

\* C7: for valid start <= end the expander returns (end - start in days) + 1
\* day keys, strictly ascending by one calendar day each, the first being
\* start and the last end.  (Violated where the local time zone has a
\* daylight-saving transition: setDate works on the local calendar,
\* toISOString on the UTC one.)
C7_ExpandExact ==
    ( /\ req.op = "expand"
      /\ NewDate(req.start).valid /\ NewDate(req.end).valid
      /\ DayNumber(req.start) <= DayNumber(req.end) ) =>
        LET dates == resp.body.dates
        IN  /\ ~resp.body.isError
            /\ Len(dates) = DayNumber(req.end) - DayNumber(req.start) + 1
            /\ \A i \in 1..(Len(dates) - 1) :
                  DayNumber(dates[i + 1]) = DayNumber(dates[i]) + 1
            /\ dates[1] = req.start
            /\ dates[Len(dates)] = req.end

\* C8: Summary over a range in which no day has a coverage or a usage
\* resource, a range of zero days (start > end) included, answers
\* successfully with { totalAPIs: 0, avgCoverage: 0, totalCalls: 0 }.  The
\* range is the sequence of day keys the expander returns.
C8_EmptyRangeZeroSummary ==
    ( /\ req.op = "summary" /\ ValidDates
      /\ \A i \in 1..Len(Range) :
            /\ CoverageFile(store, Range[i]).state = "absent"
            /\ UsageFile(store, Range[i]).state = "absent" ) =>
        /\ resp.status = 200
        /\ resp.body = ZeroSummary

\* C8 witnesses: a range of at least one day without resources while the
\* directory holds files of other days; and a range of zero days
C8_Witness ==
    /\ req.op = "summary" /\ ValidDates
    /\ Len(Range) >= 1
    /\ \A i \in 1..Len(Range) :
          /\ CoverageFile(store, Range[i]).state = "absent"
          /\ UsageFile(store, Range[i]).state = "absent"
    /\ \E d \in StoreDays : CoverageFile(store, d).state = "ok" /\ Len(SnapCoverage(d)) > 0
    /\ resp.status = 200
    /\ resp.body = ZeroSummary

\* C9: CoverageUsage returns one ScatterPoint per API name of the day's
\* coverage map, with coverage = coveredLines / fullSize * 100 and usage the
\* count of the first usage record with that name, 0 when there is none or
\* no usage resource.  (Violated through C2: a resource of the day that
\* fails to deserialize makes the request answer 500.)
C9_OneScatterPointPerName ==
    (req.op = "coverage-usage" /\ req.date # NoParam) =>
        /\ resp.status = 200
        /\ LET pts == resp.body.data
               cov == SnapCoverage(req.date)
               use == SnapUsage(req.date)
           IN  /\ Len(pts) = Len(cov)
               /\ \A i \in 1..Len(pts) :
                     /\ pts[i].name = cov[i].name
                     /\ pts[i].coverage = Pct(cov[i].api)
                     /\ pts[i].usage = FirstCount(use, cov[i].name, 1)

\* C10: with every coverage record satisfying fullSize > 0 and
\* 0 <= coveredLines <= fullSize, Summary's avgCoverage lies in [0, 100] and
\* is the coverage sum divided by the number of (day, name) pairs that have
\* a coverage record, 0 when there is none; totalAPIs is the number of
\* distinct API names over the coverage maps of the range.  The range is the
\* sequence of day keys the expander returns, a day key it repeats counting
\* once per occurrence (what the expander returns is C7).  (Violated: a name
\* of the global name set that is also a property of Object.prototype is
\* found, as an inherited function, in every coverage map that has no record
\* of that name, and adds NaN to the coverage sum.)
C10_AvgCoverageAndTotalAPIs ==
    (req.op = "summary" /\ ValidDates) =>
        /\ resp.status = 200
        /\ FracLeq(<<0, 1>>, resp.body.avgCoverage)
        /\ FracLeq(resp.body.avgCoverage, <<100, 1>>)
        /\ resp.body.avgCoverage = ExpAvgCoverage(Range)
        /\ resp.body.totalAPIs = Cardinality(GlobalNames(Range))

====
